---- MODULE Spec2Model ----
(***************************************************************************)
(* Spending-persona analytics pipeline of the expense tracker:             *)
(*   ml_model/data_processor.py        (feature extraction)                *)
(*   ml_model/spending_analyzer.py     (persona classifier, persistence)   *)
(*   ml_model/recommendation_engine.py (rule engine)                       *)
(*   app.py                            (the /api/ml/* endpoints)           *)
(*                                                                         *)
(* Units.  Amounts are whole currency units.  A percentage is held in      *)
(* hundredths of a percent (75.00 % is 7500), which is exactly what        *)
(* .round(2) keeps.  A potential_savings value is held in hundredths of a  *)
(* currency unit (180.00 is 18000).  Categories are numbered by the        *)
(* alphabetical rank of their name, the order groupby() yields them in.    *)
(***************************************************************************)
EXTENDS Integers, Sequences, FiniteSets, Bags, TLC

VARIABLES
    \* ---- the service: files on disk and the requests in flight ----
    modelFile,      \* models/kmeans_model.pkl
    scalerFile,     \* models/scaler.pkl
    trainCount,     \* number of train_model calls started so far (their ids)
    req,            \* the bag of the local states of the handlers in flight
    \* ---- the pure pipeline: one DataFrame and what is computed from it ----
    df,             \* the transaction rows handed to extract_features
    features,       \* the result of extract_features(df)
    recs,           \* the list the rule under study returned
    phase,          \* the pipeline step reached, "input" first
    \* ---- the rule engine's other inputs and results ----
    income,         \* generate_recommendations' income argument, 0 for None
    cluster_id,     \* the cluster id handed to get_cluster_insights
    insights,       \* the result of get_cluster_insights
    sorted_recs,    \* the result of prioritize_recommendations
    total_savings,  \* the result of calculate_total_savings_potential
    \* ---- one train_model call ----
    self_n_clusters, \* self.n_clusters
    num_vectors,    \* len(feature_vectors)
    kmeans,         \* n_clusters of the KMeans that was built, 0 before
    \* ---- two more results computed from one DataFrame ----
    feature_vector, \* the result of prepare_clustering_data(features)
    savings_rate    \* the result of calculate_savings_rate, in hundredths

svcVars == <<modelFile, scalerFile, trainCount, req>>
engVars == <<income, cluster_id, insights, sorted_recs, total_savings>>
trainVars == <<self_n_clusters, num_vectors, kmeans>>
auxVars == <<feature_vector, savings_rate>>
pureVars == <<df, features, recs, phase, engVars, trainVars, auxVars>>
vars == <<svcVars, pureVars>>

-----------------------------------------------------------------------------
(* Bounds of the model.                                                    *)

NumWorkers == 2
MaxTrains == 2
MaxRows == 3
MaxCategories == 31
NumRuleCats == 4
MaxRecs == 3
MaxClusters == 8
MaxVectors == 8

-----------------------------------------------------------------------------
(* Program constants.                                                      *)

\* NaN, the value pandas gives 0/0 (data_processor.py:67) and .std() of one
\* row (data_processor.py:85).  Every comparison with it is false.
NaN == -1
\* predict_cluster's fallback cluster id.
DefaultCluster == 1
\* api_retrain_model's row threshold.
MinTrainRows == 10
\* SpendingAnalyzer.__init__'s n_clusters default.
DefaultNClusters == 3
\* _analyze_high_spending: head(3) and the three thresholds, in hundredths.
TopN == 3
SevereAbove == 3500
ModerateAbove == 2500
MildAbove == 2000
\* generate_recommendations' weekend test and the rule's target, in percent.
WeekendTrigger == 35
WeekendTarget == 30
\* _frequency_recommendation: its two tests and its reduction in percent.
FreqAboveCount == 100
FreqBelowAvg == 500
FreqReduction == 15
\* _cluster_based_recommendation: the reduction in percent.
PersonaReduction == 25

\* The default categories of app.py:100-109 by alphabetical rank; 'Income' is
\* an income category and never reaches the expense aggregation.
CategoryName(c) ==
    CASE c = 1 -> "Bills & Utilities"
      [] c = 2 -> "Entertainment"
      [] c = 3 -> "Food & Dining"
      [] c = 4 -> "Healthcare"
      [] c = 5 -> "Other"
      [] c = 6 -> "Shopping"
      [] c = 7 -> "Transportation"
      [] OTHER -> "user category"

-----------------------------------------------------------------------------
(* data_processor.py                                                       *)

Row(c, t, a, w) == [category |-> c, category_type |-> t, amount |-> a, weekend |-> w]

\* The sum of the amount column, added up by halves.
RECURSIVE SumAmount(_)
SumAmount(s) ==
    IF Len(s) = 0 THEN 0
    ELSE IF Len(s) = 1 THEN s[1].amount
    ELSE SumAmount(SubSeq(s, 1, Len(s) \div 2))
            + SumAmount(SubSeq(s, Len(s) \div 2 + 1, Len(s)))

IsExpense(r) == r.category_type = "expense"

\* numpy's round: to the nearest, an exact tie to the even neighbour.
RoundHalfEven(n, d) ==
    LET q == n \div d
        r == n % d
    IN  IF 2 * r < d THEN q
        ELSE IF 2 * r > d THEN q + 1
        ELSE IF q % 2 = 0 THEN q ELSE q + 1

\* The percentage cut to 2 decimals instead of rounded.
PercentageTruncated(total, total_expense) ==
    IF total_expense = 0 THEN NaN ELSE (total * 10000) \div total_expense

\* (category_stats['total'] / total_expense * 100).round(2); 0/0 is NaN.
Percentage(total, total_expense) ==
    IF total_expense = 0 THEN NaN ELSE RoundHalfEven(total * 10000, total_expense)

\* The set's members in ascending order (groupby sorts its keys).
RECURSIVE SortedSeq(_)
SortedSeq(S) ==
    IF S = {} THEN <<>>
    ELSE LET m == CHOOSE x \in S : \A y \in S : x <= y
         IN  <<m>> \o SortedSeq(S \ {m})

\* expenses_df.groupby('category_name').agg(...) with the percentage column.
CategoryStats(expenses, total_expense) ==
    LET cats == SortedSeq({expenses[i].category : i \in DOMAIN expenses})
        Of(c) == SelectSeq(expenses, LAMBDA r : r.category = c)
    IN  [k \in DOMAIN cats |->
            [category |-> cats[k],
             total |-> SumAmount(Of(cats[k])),
             count |-> Len(Of(cats[k])),
             percentage |-> Percentage(SumAmount(Of(cats[k])), total_expense)]]

\* nlargest with keep='last': the last row holding the largest total.
TopRowLast(stats) ==
    LET k == CHOOSE i \in DOMAIN stats :
                /\ \A j \in DOMAIN stats : stats[j].total <= stats[i].total
                /\ \A j \in DOMAIN stats : stats[j].total = stats[i].total => j <= i
    IN  stats[k]

\* category_stats.nlargest(1, 'total').iloc[0]: the first row holding the
\* largest total (keep='first').
TopRow(stats) ==
    LET k == CHOOSE i \in DOMAIN stats :
                /\ \A j \in DOMAIN stats : stats[j].total <= stats[i].total
                /\ \A j \in DOMAIN stats : stats[j].total = stats[i].total => i <= j
    IN  stats[k]

RECURSIVE SumSquares(_)
SumSquares(s) ==
    IF Len(s) = 0 THEN 0
    ELSE IF Len(s) = 1 THEN s[1].amount * s[1].amount
    ELSE SumSquares(SubSeq(s, 1, Len(s) \div 2))
            + SumSquares(SubSeq(s, Len(s) \div 2 + 1, Len(s)))

\* expenses_df['amount'].std(): the sample deviation (ddof = 1), NaN for
\* fewer than two rows.  Held exactly as n(n-1) times its square, which is
\* n * sum(x^2) - sum(x)^2; it is computed on the amounts less the first
\* one, which gives the same number from smaller products.
StdTransaction(expenses) ==
    LET n == Len(expenses)
        shifted == [i \in 1..n |-> [amount |-> expenses[i].amount - expenses[1].amount]]
    IN  IF n < 2 THEN NaN
        ELSE n * SumSquares(shifted) - SumAmount(shifted) * SumAmount(shifted)

\* The value None that extract_features returns.
NoData ==
    [nodata |-> TRUE, total_expense |-> 0, num_transactions |-> 0,
     std_transaction |-> 0, weekend_spending |-> 0, category_stats |-> <<>>,
     num_categories |-> 0, top_category |-> 0, top_category_percentage |-> 0]

\* The dictionary extract_features builds once both early returns have passed.
FeatureSet(d) ==
    LET expenses == SelectSeq(d, IsExpense)
        total_expense == SumAmount(expenses)
        stats == CategoryStats(expenses, total_expense)
    IN  [nodata |-> FALSE,
         total_expense |-> total_expense,
         num_transactions |-> Len(expenses),
         std_transaction |-> StdTransaction(expenses),
         weekend_spending |-> SumAmount(SelectSeq(expenses, LAMBDA r : r.weekend)),
         category_stats |-> stats,
         num_categories |-> Len(stats),
         top_category |-> IF Len(stats) > 0 THEN TopRow(stats).category ELSE 0,
         top_category_percentage |->
             IF Len(stats) > 0 THEN TopRow(stats).percentage ELSE 0]

\* extract_features without its two early returns.
extract_features_unguarded(d) == FeatureSet(d)

\* DataProcessor.extract_features: None for no rows or no expense rows.
extract_features(d) ==
    IF Len(d) = 0 THEN NoData
    ELSE IF Len(SelectSeq(d, IsExpense)) = 0 THEN NoData
    ELSE FeatureSet(d)

\* DataProcessor.prepare_clustering_data, as far as the classifier reads it:
\* None for None, and whether an entry of the vector is NaN (the percentage
\* of a standard category that is present, or std_transaction / 1000).
prepare_clustering_data(f) ==
    [none |-> f.nodata,
     has_nan |->
        /\ ~f.nodata
        /\ \/ f.std_transaction = NaN
           \/ \E k \in DOMAIN f.category_stats :
                 /\ f.category_stats[k].category \in 1..7
                 /\ f.category_stats[k].percentage = NaN]

\* One entry of the feature vector, a float, held exactly as the fraction
\* num / den; root says that the float is the square root of the fraction.
\* NaN is 0 / 0.
Entry(num, den) == [num |-> num, den |-> den, root |-> FALSE]
RootEntry(num, den) == [num |-> num, den |-> den, root |-> TRUE]
NaNEntry == Entry(0, 0)

\* The seven standard categories in alphabetical order.
standard_categories_sorted == <<1, 2, 3, 4, 5, 6, 7>>

\* standard_categories of prepare_clustering_data: 'Food & Dining',
\* 'Transportation', 'Shopping', 'Entertainment', 'Bills & Utilities',
\* 'Healthcare', 'Other'.
standard_categories == <<3, 7, 6, 2, 1, 4, 5>>

\* cat_data.iloc[0]['percentage'] if the category has a row, else 0.0.
CategoryEntry(stats, cat) ==
    LET cat_data == SelectSeq(stats, LAMBDA r : r.category = cat)
    IN  IF Len(cat_data) > 0
        THEN IF cat_data[1].percentage = NaN THEN NaNEntry
             ELSE Entry(cat_data[1].percentage, 100)
        ELSE Entry(0, 1)

\* The four behavioural entries: avg_transaction / 1000,
\* std_transaction / 1000, weekend_spending_ratio * 100, num_transactions / 10.
BehaviouralEntries(f) ==
    LET n == f.num_transactions
    IN  << Entry(f.total_expense, n * 1000),
           IF f.std_transaction = NaN THEN NaNEntry
           ELSE RootEntry(f.std_transaction, n * (n - 1) * 1000 * 1000),
           IF f.total_expense > 0
           THEN Entry(100 * f.weekend_spending, f.total_expense)
           ELSE Entry(0, 1),
           Entry(n, 10) >>

\* The array prepare_clustering_data returns for features that are not None.
FeatureVector(f) ==
    [i \in 1..Len(standard_categories) |->
        CategoryEntry(f.category_stats, standard_categories[i])]
    \o BehaviouralEntries(f)

IsIncome(r) == r.category_type = "income"

\* The savings rate cut down to the hundredth below instead of rounded.
calculate_savings_rate_floored(d) ==
    LET total_income == SumAmount(SelectSeq(d, IsIncome))
        total_expense == SumAmount(SelectSeq(d, IsExpense))
    IN  IF Len(d) = 0 THEN 0
        ELSE IF total_income = 0 THEN 0
        ELSE ((total_income - total_expense) * 10000) \div total_income

\* DataProcessor.calculate_savings_rate on the frame get_user_transactions
\* returned, in hundredths of a percent: round(savings / income * 100, 2),
\* and 0.0 for an empty frame or a total income of 0.  A result of -0.0 is 0.
calculate_savings_rate(d) ==
    LET total_income == SumAmount(SelectSeq(d, IsIncome))
        total_expense == SumAmount(SelectSeq(d, IsExpense))
    IN  IF Len(d) = 0 THEN 0
        ELSE IF total_income = 0 THEN 0
        ELSE RoundHalfEven((total_income - total_expense) * 10000, total_income)

\* DataProcessor.get_user_transactions for a user holding nExp expense rows
\* and nInc income rows (category 3 is 'Food & Dining'; 0 stands for 'Income').
RECURSIVE Repeat(_, _)
Repeat(r, n) == IF n = 0 THEN <<>> ELSE <<r>> \o Repeat(r, n - 1)

get_user_transactions(nExp, nInc) ==
    Repeat(Row(3, "expense", 100, FALSE), nExp) \o Repeat(Row(0, "income", 1000, FALSE), nInc)

-----------------------------------------------------------------------------
(* spending_analyzer.py: the classifier and its two files.                 *)
(*                                                                         *)
(* A fitted model or scaler is identified by the number of the train_model *)
(* call that fitted it.  A file is absent, partly written (unreadable), or *)
(* holds the artifact of one train call.                                   *)

Absent == [st |-> "absent", id |-> 0, k |-> 0]
Partial == [st |-> "partial", id |-> 0, k |-> 0]
Written(obj) == [st |-> "ok", id |-> obj.id, k |-> obj.k]

\* self.model = None and self.scaler = StandardScaler() of __init__.
NoModel == [st |-> "none", id |-> 0, k |-> 0]
UnfittedScaler == [st |-> "unfitted", id |-> 0, k |-> 0]

Min(a, b) == IF a < b THEN a ELSE b

\* The configured n_clusters whatever the size of the batch.
TrainClustersConfigured(n_clusters, n) == n_clusters

\* train_model's choice of n_clusters for a batch of n samples.
TrainClusters(n_clusters, n) ==
    IF n < n_clusters THEN Min(n, 3) ELSE n_clusters

\* get_cluster_name.
get_cluster_name(id) ==
    CASE id = 0 -> "Budget Master"
      [] id = 1 -> "Balanced Saver"
      [] id = 2 -> "Needs Improvement"
      [] OTHER -> "Average Spender"

\* No insights computed yet.
NoInsights == [persona |-> "none", main_focus |-> "none"]

-----------------------------------------------------------------------------
(* app.py: the request handlers.  The development server (app.run) serves  *)
(* each request on its own thread, so handlers interleave at every file    *)
(* operation.  Each handler builds its own SpendingAnalyzer.  The handlers *)
(* in flight are held as a bag of their local states: which thread runs a  *)
(* handler makes no difference.                                            *)

\* The transaction tables a requesting user may hold, as <<expense rows,
\* income rows>>, that the two endpoints are tried on.
RetrainData == {<<0, 10>>, <<1, 9>>, <<9, 0>>, <<9, 1>>, <<10, 0>>}
InsightsData == {<<0, 0>>, <<0, 10>>, <<1, 9>>, <<10, 0>>}

\* A handler at its entry.
NewReq(kind, e, i) ==
    [pc |-> "start", kind |-> kind, nExp |-> e, nInc |-> i,
     model |-> NoModel, scaler |-> UnfittedScaler, has_nan |-> FALSE,
     saved |-> "na", cold |-> FALSE, loadFailed |-> "no",
     cluster |-> NaN, predictCalled |-> FALSE, recsGenerated |-> FALSE,
     stored |-> FALSE, status |-> 0, message |-> "none"]

Requests == BagToSet(req)

\* The bag with handler r advanced to r2.
Moved(r, r2) == (req (-) SetToBag({r})) (+) SetToBag({r2})

\* The handler returns its response; its analyzer goes with it.
Respond(r, status, message) ==
    [r EXCEPT !.pc = "done", !.status = status, !.message = message,
              !.model = NoModel, !.scaler = UnfittedScaler]

\* api_retrain_model up to the first file operation of _save_model: the
\* fetch, the row check, extract_features, prepare_clustering_data and the
\* in-memory part of train_model, which is train call number id.
RetrainStart(r, id) ==
    LET d == get_user_transactions(r.nExp, r.nInc)
        v == prepare_clustering_data(extract_features(d))
    IN  IF Len(d) < MinTrainRows
        THEN Respond(r, 400, "not_enough_data")
        ELSE IF v.none                       \* len(None): TypeError
        THEN Respond(r, 500, "error")
        ELSE IF v.has_nan                    \* KMeans.fit rejects NaN
        THEN Respond(r, 500, "error")
        ELSE [r EXCEPT !.pc = "save_model_open",
                       !.model = [st |-> "fitted", id |-> id,
                                  k |-> TrainClusters(DefaultNClusters, 1)],
                       !.scaler = [st |-> "fitted", id |-> id, k |-> 0]]

\* A POST /api/ml/retrain arrives and runs up to _save_model.
StartRetrain ==
    /\ BagCardinality(req) < NumWorkers
    /\ trainCount < MaxTrains
    /\ \E u \in RetrainData :
          LET r2 == RetrainStart(NewReq("retrain", u[1], u[2]), trainCount + 1)
          IN  /\ req' = req (+) SetToBag({r2})
              /\ trainCount' = IF r2.pc = "save_model_open"
                               THEN trainCount + 1 ELSE trainCount
    /\ UNCHANGED <<modelFile, scalerFile, pureVars>>

\* What api_retrain_model answers once train_model has returned: train_model
\* drops _save_model's result.
RetrainAnswer(r) == Respond(r, 200, "retrained")

\* _save_model, joblib.dump(self.model, ...): opening the file truncates it;
\* os.makedirs or the open may raise, and then _save_model returns False.
SaveModelOpen ==
    \E r \in Requests :
        /\ r.pc = "save_model_open"
        /\ \/ /\ modelFile' = Partial
              /\ req' = Moved(r, [r EXCEPT !.pc = "save_model_write"])
           \/ /\ modelFile' = modelFile
              /\ req' = Moved(r, RetrainAnswer([r EXCEPT !.saved = "failed"]))
        /\ UNCHANGED <<scalerFile, trainCount, pureVars>>

\* The write of the model file completes, or raises part-way.
SaveModelWrite ==
    \E r \in Requests :
        /\ r.pc = "save_model_write"
        /\ \/ /\ modelFile' = Written(r.model)
              /\ req' = Moved(r, [r EXCEPT !.pc = "save_scaler_open"])
           \/ /\ modelFile' = Partial
              /\ req' = Moved(r, RetrainAnswer([r EXCEPT !.saved = "failed"]))
        /\ UNCHANGED <<scalerFile, trainCount, pureVars>>

\* _save_model, joblib.dump(self.scaler, ...).
SaveScalerOpen ==
    \E r \in Requests :
        /\ r.pc = "save_scaler_open"
        /\ \/ /\ scalerFile' = Partial
              /\ req' = Moved(r, [r EXCEPT !.pc = "save_scaler_write"])
           \/ /\ scalerFile' = scalerFile
              /\ req' = Moved(r, RetrainAnswer([r EXCEPT !.saved = "failed"]))
        /\ UNCHANGED <<modelFile, trainCount, pureVars>>

SaveScalerWrite ==
    \E r \in Requests :
        /\ r.pc = "save_scaler_write"
        /\ \/ /\ scalerFile' = Written(r.scaler)
              /\ req' = Moved(r, RetrainAnswer([r EXCEPT !.saved = "ok"]))
           \/ /\ scalerFile' = Partial
              /\ req' = Moved(r, RetrainAnswer([r EXCEPT !.saved = "failed"]))
        /\ UNCHANGED <<modelFile, trainCount, pureVars>>

\* api_ml_insights up to the first file operation of predict_cluster: the
\* fetch, the two early returns, prepare_clustering_data, and the entry of
\* predict_cluster, whose analyzer is new and holds no model.
InsightsStart(r) ==
    LET d == get_user_transactions(r.nExp, r.nInc)
        f == extract_features(d)
    IN  IF Len(d) = 0
        THEN Respond(r, 400, "not_enough_data")
        ELSE IF f.nodata
        THEN Respond(r, 400, "no_features")
        ELSE [r EXCEPT !.pc = "load_exists_model",
                       !.has_nan = prepare_clustering_data(f).has_nan,
                       !.predictCalled = TRUE]

\* A GET /api/ml/insights arrives and runs up to _load_model.
StartInsights ==
    /\ BagCardinality(req) < NumWorkers
    /\ \E u \in InsightsData :
          req' = req (+) SetToBag({InsightsStart(NewReq("insights", u[1], u[2]))})
    /\ UNCHANGED <<modelFile, scalerFile, trainCount, pureVars>>

\* _load_model: os.path.exists(self.model_path) and ...
LoadExistsModel ==
    \E r \in Requests :
        /\ r.pc = "load_exists_model"
        /\ req' = Moved(r,
                     IF modelFile.st = "absent"
                     THEN [r EXCEPT !.pc = "predict",
                                    !.cold = (scalerFile.st = "absent")]
                     ELSE [r EXCEPT !.pc = "load_exists_scaler"])
        /\ UNCHANGED <<modelFile, scalerFile, trainCount, pureVars>>

\* ... and os.path.exists(self.scaler_path)
LoadExistsScaler ==
    \E r \in Requests :
        /\ r.pc = "load_exists_scaler"
        /\ req' = Moved(r, [r EXCEPT !.pc =
                     IF scalerFile.st = "absent" THEN "predict" ELSE "load_model"])
        /\ UNCHANGED <<modelFile, scalerFile, trainCount, pureVars>>

\* self.model = joblib.load(self.model_path); a raise is caught by
\* _load_model, which returns False with self.model still None.
LoadModel ==
    \E r \in Requests :
        /\ r.pc = "load_model"
        /\ \/ /\ modelFile.st = "ok"
              /\ req' = Moved(r, [r EXCEPT !.pc = "load_scaler",
                                           !.model = [st |-> "fitted",
                                                      id |-> modelFile.id,
                                                      k |-> modelFile.k]])
           \/ req' = Moved(r, [r EXCEPT !.pc = "predict", !.loadFailed = "model"])
        /\ UNCHANGED <<modelFile, scalerFile, trainCount, pureVars>>

\* self.scaler = joblib.load(self.scaler_path); a raise is caught by
\* _load_model, which returns False with self.model already assigned.
LoadScaler ==
    \E r \in Requests :
        /\ r.pc = "load_scaler"
        /\ \/ /\ scalerFile.st = "ok"
              /\ req' = Moved(r, [r EXCEPT !.pc = "predict",
                                           !.scaler = [st |-> "fitted",
                                                       id |-> scalerFile.id,
                                                       k |-> 0]])
           \/ req' = Moved(r, [r EXCEPT !.pc = "predict", !.loadFailed = "scaler"])
        /\ UNCHANGED <<modelFile, scalerFile, trainCount, pureVars>>

\* predict_cluster without its second "if self.model is None" test: the
\* missing model is dereferenced and the call raises.
PredictRestNoFallback(r, c) ==
    IF r.model.st = "none" \/ r.scaler.st = "unfitted" \/ r.has_nan
    THEN Respond(r, 500, "error")
    ELSE [r EXCEPT !.pc = "store", !.cluster = c, !.recsGenerated = TRUE]

\* api_ml_insights without its except clause: a raise of predict_cluster
\* leaves the handler and no response is built.
PredictRestUncaught(r, c) ==
    IF r.model.st = "none"
    THEN [r EXCEPT !.pc = "store", !.cluster = DefaultCluster, !.recsGenerated = TRUE]
    ELSE IF r.scaler.st = "unfitted" \/ r.has_nan
    THEN [r EXCEPT !.pc = "done", !.model = NoModel, !.scaler = UnfittedScaler]
    ELSE [r EXCEPT !.pc = "store", !.cluster = c, !.recsGenerated = TRUE]

\* The rest of predict_cluster with cluster c as the nearest centroid, and
\* then get_cluster_insights, generate_recommendations,
\* prioritize_recommendations and calculate_total_savings_potential.
PredictRest(r, c) ==
    IF r.model.st = "none"
    THEN [r EXCEPT !.pc = "store", !.cluster = DefaultCluster, !.recsGenerated = TRUE]
    ELSE IF r.scaler.st = "unfitted"        \* scaler.transform: NotFittedError
    THEN Respond(r, 500, "error")
    ELSE IF r.has_nan                       \* KMeans.predict rejects NaN
    THEN Respond(r, 500, "error")
    ELSE [r EXCEPT !.pc = "store", !.cluster = c, !.recsGenerated = TRUE]

Predict ==
    \E r \in Requests :
        /\ r.pc = "predict"
        /\ \E c \in 0..(IF r.model.k > 0 THEN r.model.k - 1 ELSE 0) :
              req' = Moved(r, PredictRest(r, c))
        /\ UNCHANGED <<modelFile, scalerFile, trainCount, pureVars>>

\* store_ml_insights, which catches its own failures, and the response.
Store ==
    \E r \in Requests :
        /\ r.pc = "store"
        /\ \E ok \in BOOLEAN :
              req' = Moved(r, Respond([r EXCEPT !.stored = ok], 200, "insights"))
        /\ UNCHANGED <<modelFile, scalerFile, trainCount, pureVars>>

\* The response is out and the handler's thread is free again.
Finish ==
    \E r \in Requests :
        /\ r.pc = "done"
        /\ req' = req (-) SetToBag({r})
        /\ UNCHANGED <<modelFile, scalerFile, trainCount, pureVars>>

\* Nothing handed to the rule engine or to train_model yet.
InitEngine ==
    /\ income = 0
    /\ cluster_id = DefaultCluster
    /\ insights = NoInsights
    /\ sorted_recs = <<>>
    /\ total_savings = 0

InitAux ==
    /\ feature_vector = <<>>
    /\ savings_rate = 0

InitTrain ==
    /\ self_n_clusters = DefaultNClusters
    /\ num_vectors = 0
    /\ kmeans = 0

InitPure ==
    /\ df = <<>>
    /\ features = NoData
    /\ recs = <<>>
    /\ phase = "input"
    /\ InitEngine
    /\ InitTrain
    /\ InitAux

InitService ==
    /\ modelFile = Absent
    /\ scalerFile = Absent
    /\ trainCount = 0
    /\ req = EmptyBag

Init == InitService /\ InitPure

Next ==
    \/ StartRetrain
    \/ SaveModelOpen
    \/ SaveModelWrite
    \/ SaveScalerOpen
    \/ SaveScalerWrite
    \/ StartInsights
    \/ LoadExistsModel
    \/ LoadExistsScaler
    \/ LoadModel
    \/ LoadScaler
    \/ Predict
    \/ Store
    \/ Finish

Spec == Init /\ [][Next]_vars

-----------------------------------------------------------------------------
(* recommendation_engine.py: the high-spend rule.                          *)

\* self.reduction_targets, in percent.
ReductionTarget(severity) ==
    CASE severity = "severe" -> 30
      [] severity = "moderate" -> 20
      [] severity = "mild" -> 10

\* _get_priority.
get_priority(severity) ==
    CASE severity = "severe" -> "critical"
      [] severity = "moderate" -> "high"
      [] severity = "mild" -> "medium"
      [] OTHER -> "low"

\* The if/elif chain of _analyze_high_spending with every test inclusive.
SeverityInclusive(percentage) ==
    IF percentage >= SevereAbove THEN "severe"
    ELSE IF percentage >= ModerateAbove THEN "moderate"
    ELSE IF percentage >= MildAbove THEN "mild"
    ELSE "skip"

\* The if/elif chain of _analyze_high_spending; "skip" is its continue.  A
\* NaN percentage fails every test.
Severity(percentage) ==
    IF percentage > SevereAbove THEN "severe"
    ELSE IF percentage > ModerateAbove THEN "moderate"
    ELSE IF percentage > MildAbove THEN "mild"
    ELSE "skip"

\* The loop without .head(3).
HeadRowsAll(sorted_cats) == sorted_cats

\* sorted_cats.head(3)
HeadRows(sorted_cats) == SubSeq(sorted_cats, 1, Min(Len(sorted_cats), TopN))

\* The recommendation the loop body appends for one row.
HighSpendRec(row) ==
    LET severity == Severity(row.percentage)
    IN  [type |-> "high_spend",
         priority |-> get_priority(severity),
         category |-> row.category,
         current_percentage |-> row.percentage,
         current_amount |-> row.total,
         severity |-> severity,
         reduction_percentage |-> ReductionTarget(severity),
         potential_savings |-> row.total * ReductionTarget(severity)]

RECURSIVE HighSpendLoop(_)
HighSpendLoop(rows) ==
    IF rows = <<>> THEN <<>>
    ELSE IF Severity(Head(rows).percentage) = "skip"
    THEN HighSpendLoop(Tail(rows))
    ELSE <<HighSpendRec(Head(rows))>> \o HighSpendLoop(Tail(rows))

\* category_stats.sort_values('percentage', ascending=False): the orders of
\* the rows with percentages descending; the order among equal percentages
\* is the sort algorithm's, and NaN goes last.
SortedByPercentage(stats) ==
    LET n == Len(stats)
        perms == {f \in [1..n -> 1..n] : \A i, j \in 1..n : i # j => f[i] # f[j]}
    IN  {[i \in 1..n |-> stats[f[i]]] : f \in
            {g \in perms : \A i, j \in 1..n :
                i < j => stats[g[i]].percentage >= stats[g[j]].percentage}}

\* _analyze_high_spending on the sorted rows.
analyze_high_spending(sorted_cats) == HighSpendLoop(HeadRows(sorted_cats))

-----------------------------------------------------------------------------
(* recommendation_engine.py: ordering and totalling.  A recommendation is  *)
(* a dict: a function from its keys, which differ from rule to rule.       *)

\* dict.get(key, default)
Get(rec, key, default) == IF key \in DOMAIN rec THEN rec[key] ELSE default

\* priority_order.get(..., 4)
PriorityRank(priority) ==
    CASE priority = "critical" -> 0
      [] priority = "high" -> 1
      [] priority = "medium" -> 2
      [] priority = "low" -> 3
      [] OTHER -> 4

\* The key lambda of prioritize_recommendations.
SortKey(x) ==
    <<PriorityRank(Get(x, "priority", "low")), -Get(x, "potential_savings", 0)>>

\* Python's order on the key tuples.
KeyLess(a, b) == a[1] < b[1] \/ (a[1] = b[1] /\ a[2] < b[2])

\* A sort that puts an element before the earlier elements of equal key.
RECURSIVE InsertBeforeEqual(_, _)
InsertBeforeEqual(s, x) ==
    IF s = <<>> THEN <<x>>
    ELSE IF ~KeyLess(SortKey(Head(s)), SortKey(x)) THEN <<x>> \o s
    ELSE <<Head(s)>> \o InsertBeforeEqual(Tail(s), x)

\* sorted() is stable: an element goes behind every earlier element whose
\* key is not greater than its own.
RECURSIVE InsertStable(_, _)
InsertStable(s, x) ==
    IF s = <<>> THEN <<x>>
    ELSE IF KeyLess(SortKey(x), SortKey(Head(s))) THEN <<x>> \o s
    ELSE <<Head(s)>> \o InsertStable(Tail(s), x)

\* sorted(recommendations, key=...), which builds a new list.
RECURSIVE prioritize_recommendations(_)
prioritize_recommendations(recommendations) ==
    IF recommendations = <<>> THEN <<>>
    ELSE InsertStable(
            prioritize_recommendations(
                SubSeq(recommendations, 1, Len(recommendations) - 1)),
            recommendations[Len(recommendations)])

\* A total that counts one recommendation per priority only.
RECURSIVE SumSavingsOncePerPriority(_)
SumSavingsOncePerPriority(recommendations) ==
    IF recommendations = <<>> THEN 0
    ELSE LET x == Head(recommendations)
             rest == SelectSeq(Tail(recommendations),
                        LAMBDA y : Get(y, "priority", "low") # Get(x, "priority", "low"))
         IN  Get(x, "potential_savings", 0) + SumSavingsOncePerPriority(rest)

\* sum(rec.get('potential_savings', 0) for rec in recommendations)
RECURSIVE SumSavings(_)
SumSavings(recommendations) ==
    IF recommendations = <<>> THEN 0
    ELSE Get(Head(recommendations), "potential_savings", 0)
            + SumSavings(Tail(recommendations))

\* round(total, 2) of a total held in hundredths (to nearest, halves to
\* even): the savings are whole hundredths, which it leaves as they are.
Round2(hundredths) == RoundHalfEven(hundredths * 100, 100)

\* calculate_total_savings_potential
calculate_total_savings_potential(recommendations) ==
    Round2(SumSavings(recommendations))

-----------------------------------------------------------------------------
(* spending_analyzer.py: get_cluster_insights.                             *)

\* category_stats.nlargest(3, 'percentage'), first row: the first row
\* holding the largest percentage (keep='first').
TopByPercentage(stats) ==
    LET k == CHOOSE i \in DOMAIN stats :
                /\ \A j \in DOMAIN stats : stats[j].percentage <= stats[i].percentage
                /\ \A j \in DOMAIN stats :
                      stats[j].percentage = stats[i].percentage => i <= j
    IN  stats[k]

\* get_cluster_insights, the two fields the engine and the store read.
get_cluster_insights(id, f) ==
    [persona |-> get_cluster_name(id),
     main_focus |-> IF Len(f.category_stats) > 0
                    THEN CategoryName(TopByPercentage(f.category_stats).category)
                    ELSE "General"]

-----------------------------------------------------------------------------
(* recommendation_engine.py: rules 2 to 5 and generate_recommendations.    *)
(* weekend_spending_ratio is weekend_spending / total_expense (0 when      *)
(* total_expense is not positive) and avg_transaction is total_expense /   *)
(* num_transactions; tests on them are made on the cross products.         *)

\* features['weekend_spending_ratio'] > pct / 100
WeekendRatioAbove(f, pct) ==
    /\ f.total_expense > 0
    /\ 100 * f.weekend_spending > pct * f.total_expense

\* What _weekend_spending_recommendation returns when it returns no dict.
None == [type |-> "None"]

\* _weekend_spending_recommendation
weekend_spending_recommendation(f) ==
    IF WeekendRatioAbove(f, WeekendTarget)
    THEN [type |-> "weekend_spending",
          priority |-> "medium",
          current_amount |-> f.weekend_spending,
          potential_savings |-> 100 * f.weekend_spending - WeekendTarget * f.total_expense]
    ELSE None

\* Rule 2 with the test of generate_recommendations made at the target ratio.
WeekendRuleAtTarget(f) ==
    IF WeekendRatioAbove(f, WeekendTarget)
    THEN <<weekend_spending_recommendation(f)>> ELSE <<>>

\* generate_recommendations, rule 2.
WeekendRule(f) ==
    IF WeekendRatioAbove(f, WeekendTrigger)
    THEN <<weekend_spending_recommendation(f)>> ELSE <<>>

\* Rule 3 with both tests inclusive.
FrequencyRuleInclusive(f) ==
    IF /\ f.num_transactions >= FreqAboveCount
       /\ f.total_expense <= FreqBelowAvg * f.num_transactions
    THEN <<[type |-> "frequency",
            priority |-> "low",
            transaction_count |-> f.num_transactions,
            potential_savings |-> FreqReduction * f.total_expense]>>
    ELSE <<>>

\* generate_recommendations, rule 3: _frequency_recommendation, appended
\* when it is not None.
FrequencyRule(f) ==
    IF /\ f.num_transactions > FreqAboveCount
       /\ f.total_expense < FreqBelowAvg * f.num_transactions
    THEN <<[type |-> "frequency",
            priority |-> "low",
            transaction_count |-> f.num_transactions,
            potential_savings |-> FreqReduction * f.total_expense]>>
    ELSE <<>>

\* self.optimal_ranges: the categories it holds and their upper bounds.
InOptimalRanges(c) == c \in 1..7

OptimalMax(c) ==
    CASE c = 1 -> 25
      [] c = 2 -> 10
      [] c = 3 -> 25
      [] c = 4 -> 10
      [] c = 5 -> 10
      [] c = 6 -> 15
      [] c = 7 -> 15

\* _budget_recommendations: current_pct > max_pct is total / income * 100 >
\* max_pct, and savings is total - income * (max_pct / 100).
RECURSIVE budget_recommendations(_, _)
budget_recommendations(stats, inc) ==
    IF stats = <<>> THEN <<>>
    ELSE LET row == Head(stats)
         IN  (IF /\ InOptimalRanges(row.category)
                 /\ 100 * row.total > OptimalMax(row.category) * inc
              THEN <<[type |-> "budget_alignment",
                      priority |-> "high",
                      category |-> row.category,
                      potential_savings |->
                          100 * row.total - inc * OptimalMax(row.category)]>>
              ELSE <<>>)
             \o budget_recommendations(Tail(stats), inc)

\* Rule 4 without the test on income.
BudgetRuleAnyIncome(stats, inc) == budget_recommendations(stats, inc)

\* generate_recommendations, rule 4: "if income and income > 0"; an income
\* of 0 stands for None as well.
BudgetRule(stats, inc) ==
    IF inc > 0 THEN budget_recommendations(stats, inc) ELSE <<>>

\* Rule 5 treating every persona but "Budget Master" as "Needs Improvement".
cluster_based_recommendation_any(ins, f) ==
    IF ins.persona = "Budget Master"
    THEN [type |-> "persona", priority |-> "low", persona |-> ins.persona]
    ELSE [type |-> "persona", priority |-> "critical", persona |-> ins.persona,
          potential_savings |-> PersonaReduction * f.total_expense]

\* _cluster_based_recommendation
cluster_based_recommendation(ins, f) ==
    IF ins.persona = "Needs Improvement"
    THEN [type |-> "persona", priority |-> "critical", persona |-> ins.persona,
          potential_savings |-> PersonaReduction * f.total_expense]
    ELSE IF ins.persona = "Budget Master"
    THEN [type |-> "persona", priority |-> "low", persona |-> ins.persona]
    ELSE None

\* Rule 5 appending whatever _cluster_based_recommendation returned.
PersonaRuleUnchecked(ins, f) == <<cluster_based_recommendation(ins, f)>>

\* generate_recommendations, rule 5: appended "if cluster_rec".
PersonaRule(ins, f) ==
    IF cluster_based_recommendation(ins, f) = None THEN <<>>
    ELSE <<cluster_based_recommendation(ins, f)>>

\* generate_recommendations, with sorted_cats the order sort_values gave
\* the category rows in rule 1.
generate_recommendations(f, ins, inc, sorted_cats) ==
    analyze_high_spending(sorted_cats)
        \o WeekendRule(f)
        \o FrequencyRule(f)
        \o BudgetRule(f.category_stats, inc)
        \o PersonaRule(ins, f)

-----------------------------------------------------------------------------
(* The pure pipeline: rows are put into a DataFrame, extract_features runs *)
(* on it, and a rule runs on the FeatureSet.                               *)

\* Categories of the rows of SpecFeatures: 0 is 'Income', the one income
\* category; 3 is 'Food & Dining'; 8 is a category outside the standard seven.
FeatureCats == {0, 3, 8}
FeatureAmounts == {0, 100, 300}

CategoryType(c) == IF c = 0 THEN "income" ELSE "expense"

\* /add_transaction stores the amount as posted, zero included.
AddRow ==
    /\ phase = "input"
    /\ Len(df) < MaxRows
    /\ \E c \in FeatureCats, a \in FeatureAmounts, w \in BOOLEAN :
          df' = Append(df, Row(c, CategoryType(c), a, w))
    /\ UNCHANGED <<features, recs, phase, svcVars, engVars, trainVars, auxVars>>

Extract ==
    /\ phase = "input"
    /\ features' = extract_features(df)
    /\ phase' = "extracted"
    /\ UNCHANGED <<df, recs, svcVars, engVars, trainVars, auxVars>>

NextFeatures == AddRow \/ Extract

SpecFeatures == Init /\ [][NextFeatures]_vars

\* Rows of SpecVector: income, two of the standard categories and a
\* category of the user's own.
VectorCats == {0, 3, 5, 8}
MaxCalls == 2

AddVectorRow ==
    /\ phase = "input"
    /\ Len(df) < MaxRows
    /\ \E c \in VectorCats, a \in FeatureAmounts, w \in BOOLEAN :
          df' = Append(df, Row(c, CategoryType(c), a, w))
    /\ UNCHANGED <<features, recs, phase, svcVars, engVars, trainVars, auxVars>>

\* One call of prepare_clustering_data on the extracted features; the
\* results of the calls are kept in the order of the calls.
BuildVector ==
    /\ phase = "extracted"
    /\ ~features.nodata
    /\ Len(feature_vector) < MaxCalls
    /\ feature_vector' = Append(feature_vector, FeatureVector(features))
    /\ UNCHANGED <<df, features, recs, phase, savings_rate, svcVars, engVars,
                   trainVars>>

NextVector == AddVectorRow \/ Extract \/ BuildVector

SpecVector == Init /\ [][NextVector]_vars

\* Rows of SpecSavings: income rows and expense rows whose totals can be
\* equal, one unit apart, or far apart.
SavingsAmounts == {0, 1, 30000, 30001, 50000}

AddSavingsRow ==
    /\ phase = "input"
    /\ Len(df) < MaxRows
    /\ \E c \in {0, 3}, a \in SavingsAmounts :
          df' = Append(df, Row(c, CategoryType(c), a, FALSE))
    /\ UNCHANGED <<features, recs, phase, svcVars, engVars, trainVars, auxVars>>

\* One call of calculate_savings_rate.
SavingsRate ==
    /\ phase = "input"
    /\ savings_rate' = calculate_savings_rate(df)
    /\ phase' = "rated"
    /\ UNCHANGED <<df, features, recs, feature_vector, svcVars, engVars,
                   trainVars>>

NextSavings == AddSavingsRow \/ SavingsRate

SpecSavings == Init /\ [][NextSavings]_vars

\* Rows of SpecPercent: one expense row per category, categories 1, 2, ...
\* in turn, amounts not increasing (percentages do not depend on the order
\* of the rows).
PercentAmounts == {1, 2, 3}

AddCategoryRow ==
    /\ phase = "input"
    /\ Len(df) < MaxCategories
    /\ \E a \in PercentAmounts :
          /\ Len(df) > 0 => a <= df[Len(df)].amount
          /\ df' = Append(df, Row(Len(df) + 1, "expense", a, FALSE))
    /\ UNCHANGED <<features, recs, phase, svcVars, engVars, trainVars, auxVars>>

NextPercent == AddCategoryRow \/ Extract

SpecPercent == Init /\ [][NextPercent]_vars

\* Inputs of SpecRules: the total of each of the categories 1..NumRuleCats,
\* 0 for a category without rows.
RuleTotals == {0, 200, 400, 500, 600, 700}

RECURSIVE RowsOfTotals(_, _)
RowsOfTotals(t, c) ==
    IF c > NumRuleCats THEN <<>>
    ELSE IF t[c] = 0 THEN RowsOfTotals(t, c + 1)
    ELSE <<Row(c, "expense", t[c], FALSE)>> \o RowsOfTotals(t, c + 1)

InitRules ==
    /\ InitService
    /\ \E t \in [1..NumRuleCats -> RuleTotals] : df = RowsOfTotals(t, 1)
    /\ features = NoData
    /\ recs = <<>>
    /\ phase = "input"
    /\ InitEngine
    /\ InitTrain
    /\ InitAux

\* generate_recommendations, rule 1.
HighSpend ==
    /\ phase = "extracted"
    /\ ~features.nodata
    /\ \E sorted_cats \in SortedByPercentage(features.category_stats) :
          recs' = analyze_high_spending(sorted_cats)
    /\ phase' = "ruled"
    /\ UNCHANGED <<df, features, svcVars, engVars, trainVars, auxVars>>

NextRules == Extract \/ HighSpend

SpecRules == InitRules /\ [][NextRules]_vars

\* Inputs of SpecPrioritize: lists of up to MaxRecs recommendations.  Each
\* has a priority of the four known ones, an unknown one, or no 'priority'
\* key, and a potential_savings (in hundredths) or no such key; its tag is
\* its place in the list.
RecPriorities == {"critical", "high", "medium", "low", "urgent", "no key"}
RecSavings == {<<FALSE, 0>>, <<TRUE, 0>>, <<TRUE, 10000>>}

RecOf(p, v, i) ==
    IF p = "no key"
    THEN IF v[1] THEN [type |-> "any", tag |-> i, potential_savings |-> v[2]]
         ELSE [type |-> "any", tag |-> i]
    ELSE IF v[1] THEN [type |-> "any", tag |-> i, priority |-> p, potential_savings |-> v[2]]
         ELSE [type |-> "any", tag |-> i, priority |-> p]

InitPrioritize ==
    /\ InitService
    /\ df = <<>>
    /\ features = NoData
    /\ \E n \in 0..MaxRecs :
          \E f \in [1..n -> RecPriorities \X RecSavings] :
              recs = [i \in 1..n |-> RecOf(f[i][1], f[i][2], i)]
    /\ phase = "generated"
    /\ InitEngine
    /\ InitTrain
    /\ InitAux

\* recommendations = rec_engine.prioritize_recommendations(recommendations)
Prioritize ==
    /\ phase = "generated"
    /\ sorted_recs' = prioritize_recommendations(recs)
    /\ phase' = "prioritized"
    /\ UNCHANGED <<df, features, recs, income, cluster_id, insights,
                   total_savings, svcVars, trainVars, auxVars>>

\* total_savings = rec_engine.calculate_total_savings_potential(recommendations)
TotalSavings ==
    /\ phase = "prioritized"
    /\ total_savings' = calculate_total_savings_potential(sorted_recs)
    /\ phase' = "totalled"
    /\ UNCHANGED <<df, features, recs, income, cluster_id, insights,
                   sorted_recs, svcVars, trainVars, auxVars>>

NextPrioritize == Prioritize \/ TotalSavings

\* Inputs of SpecEngine: a DataFrame of two groups of equal expense rows,
\* each group <<rows, amount>> with a category and a weekend flag, so that
\* more than 100 rows and totals as close as 10000 and 10001 are met (the
\* latter beside a single row); the income argument (0 for None); and the
\* cluster id.
EngineHeadGroups ==
    {<<1, 500>>, <<1, 650>>, <<1, 10000>>, <<100, 300>>, <<101, 500>>, <<150, 300>>}
EngineTailGroups == {<<0, 0>>, <<1, 350>>, <<1, 500>>, <<1, 10001>>}
EngineHeadCats == {1, 3}
EngineTailCats == {3, 8}
EngineIncomes == {0, -2000, 1000, 2000}
EngineClusters == {0, 1, 2, 3}

InitEngineInputs ==
    /\ InitService
    /\ \E g \in EngineHeadGroups, h \in EngineTailGroups,
          c \in EngineHeadCats, d \in EngineTailCats, v, w \in BOOLEAN :
          /\ h[2] > 1000 => g[1] = 1
          /\ df = [i \in 1..g[1] |-> Row(c, "expense", g[2], v)]
                     \o [i \in 1..h[1] |-> Row(d, "expense", h[2], w)]
    /\ features = NoData
    /\ recs = <<>>
    /\ phase = "input"
    /\ income \in EngineIncomes
    /\ cluster_id \in EngineClusters
    /\ insights = NoInsights
    /\ sorted_recs = <<>>
    /\ total_savings = 0
    /\ InitTrain
    /\ InitAux

\* cluster_insights = analyzer.get_cluster_insights(cluster_id, features)
ClusterInsights ==
    /\ phase = "extracted"
    /\ ~features.nodata
    /\ insights' = get_cluster_insights(cluster_id, features)
    /\ phase' = "insights"
    /\ UNCHANGED <<df, features, recs, income, cluster_id, sorted_recs,
                   total_savings, svcVars, trainVars, auxVars>>

\* recommendations = rec_engine.generate_recommendations(features,
\* cluster_insights, monthly_income)
Generate ==
    /\ phase = "insights"
    /\ \E sorted_cats \in SortedByPercentage(features.category_stats) :
          recs' = generate_recommendations(features, insights, income, sorted_cats)
    /\ phase' = "generated"
    /\ UNCHANGED <<df, features, income, cluster_id, insights, sorted_recs,
                   total_savings, svcVars, trainVars, auxVars>>

NextEngine == Extract \/ ClusterInsights \/ Generate \/ Prioritize \/ TotalSavings

SpecEngine == InitEngineInputs /\ [][NextEngine]_vars

\* Inputs of SpecTrain: an analyzer built with n_clusters of 1..MaxClusters
\* and a batch of 1..MaxVectors feature vectors.
InitTrainInputs ==
    /\ InitService
    /\ df = <<>>
    /\ features = NoData
    /\ recs = <<>>
    /\ phase = "input"
    /\ InitEngine
    /\ InitAux
    /\ self_n_clusters \in 1..MaxClusters
    /\ num_vectors \in 1..MaxVectors
    /\ kmeans = 0

\* train_model: the KMeans it builds.
Train ==
    /\ phase = "input"
    /\ kmeans' = TrainClusters(self_n_clusters, num_vectors)
    /\ phase' = "trained"
    /\ UNCHANGED <<df, features, recs, self_n_clusters, num_vectors, svcVars,
                   engVars, auxVars>>

NextTrain == Train

SpecTrain == InitTrainInputs /\ [][NextTrain]_vars

SpecPrioritize == InitPrioritize /\ [][NextPrioritize]_vars

-----------------------------------------------------------------------------
(* Properties of the service (specification Spec).                         *)

\* predict_cluster has returned a cluster id to handler r, whose analyzer
\* is alive until the handler returns.
Predicted(r) == r.kind = "insights" /\ r.pc = "store"

RetrainDone(r) == r.kind = "retrain" /\ r.pc = "done"

InsightsDone(r) == r.kind = "insights" /\ r.pc = "done"

\* C1: whenever predict_cluster returns a cluster id, it either found no
\* model and returned the default id 1, or it used a model and a scaler
\* fitted by one and the same train_model call.
C1_PredictUsesOnePair ==
    \A r \in Requests :
        Predicted(r) =>
            \/ r.model.st = "none" /\ r.cluster = 1
            \/ /\ r.model.st = "fitted"
               /\ r.scaler.st = "fitted"
               /\ r.scaler.id = r.model.id

\* C2: a predict_cluster call whose analyzer holds no model and that finds
\* neither artifact on disk returns cluster id 1, "Balanced Saver", and does
\* not raise, whatever the feature vector (one holding NaN included).
C2_ColdStartReturnsDefault ==
    \A r \in Requests :
        (r.cold /\ r.pc # "predict") =>
            /\ r.cluster = 1
            /\ get_cluster_name(r.cluster) = "Balanced Saver"
            /\ r.status # 500

C2_Witness ==
    \E r \in Requests :
        /\ r.cold
        /\ r.has_nan
        /\ r.pc = "done"
        /\ r.cluster = 1
        /\ r.status = 200

\* C3: a retrain request answers InsufficientData (400) whenever the user
\* holds fewer than 10 expense rows, and with 10 or more expense rows it
\* answers success and has persisted its model.
C3_RetrainCountsExpenseRows ==
    \A r \in Requests :
        RetrainDone(r) =>
            /\ r.nExp < 10 =>
                  r.status = 400 /\ r.message = "not_enough_data"
            /\ r.nExp >= 10 =>
                  r.status = 200 /\ r.saved = "ok"

\* C4: a retrain request never answers success for a train_model call whose
\* model or scaler was not written.
C4_SaveFailureReported ==
    \A r \in Requests :
        (RetrainDone(r) /\ r.status = 200) => r.saved = "ok"

\* C5: when reading the model file or the scaler file fails inside
\* _load_model, predict_cluster returns cluster id 1 and raises nothing.
C5_LoadFailureFallsBack ==
    \A r \in Requests :
        (r.loadFailed # "no" /\ r.pc # "predict") =>
            r.cluster = 1 /\ r.status # 500

\* C6: extract_features returns None for a user with no rows or with no
\* expense row, and the insights request then answers 400 without calling
\* predict_cluster, without generating recommendations and without storing
\* a snapshot.
C6_NoDataAnswersNeedMoreData ==
    \A r \in Requests :
        (InsightsDone(r) /\ r.nExp = 0) =>
            /\ extract_features(get_user_transactions(r.nExp, r.nInc)).nodata
            /\ r.status = 400
            /\ r.message \in {"not_enough_data", "no_features"}
            /\ ~r.predictCalled
            /\ ~r.recsGenerated
            /\ ~r.stored
            /\ r.cluster = NaN

C6_Witness ==
    \E r \in Requests :
        /\ InsightsDone(r)
        /\ r.nExp = 0
        /\ r.nInc > 0
        /\ r.status = 400
        /\ r.message = "no_features"

-----------------------------------------------------------------------------
(* Properties of extract_features (SpecFeatures, SpecPercent).             *)

Abs(x) == IF x < 0 THEN -x ELSE x

RECURSIVE SumPercentage(_)
SumPercentage(stats) ==
    IF stats = <<>> THEN 0 ELSE Head(stats).percentage + SumPercentage(Tail(stats))

Expenses == SelectSeq(df, IsExpense)

AllAmountsPositive == \A i \in DOMAIN df : df[i].amount > 0

\* C7: whenever the expense rows sum to total_expense = 0, rows of amount 0
\* included, extract_features returns NoData.
C7_ZeroTotalYieldsNoData ==
    (phase = "extracted" /\ SumAmount(Expenses) = 0) => features.nodata

\* C8, as claimed: for every non-empty set of expense rows with amounts > 0,
\* of any number of categories, the percentages sum to 100 within 0.1.
C8_PercentagesSumWithinTenth ==
    (phase = "extracted" /\ Len(Expenses) > 0 /\ AllAmountsPositive) =>
        /\ ~features.nodata
        /\ Abs(SumPercentage(features.category_stats) - 10000) <= 10

\* C8, amended: for every non-empty set of expense rows with amounts > 0,
\* each percentage is within 0.005 of category_total / total_expense * 100,
\* so the percentages of n categories sum to 100 within n * 0.005, which is
\* inside 0.1 for fewer than 20 categories.
C8_PercentagesSumWithinHalfCentEach ==
    (phase = "extracted" /\ Len(Expenses) > 0 /\ AllAmountsPositive) =>
        /\ ~features.nodata
        /\ features.num_categories = Len(features.category_stats)
        /\ \A k \in DOMAIN features.category_stats :
              LET row == features.category_stats[k]
              IN  2 * Abs(row.percentage * features.total_expense - row.total * 10000)
                      <= features.total_expense
        /\ 2 * Abs(SumPercentage(features.category_stats) - 10000)
              <= features.num_categories
        /\ features.num_categories < 20 =>
              Abs(SumPercentage(features.category_stats) - 10000) < 10

C8_Witness ==
    /\ phase = "extracted"
    /\ AllAmountsPositive
    /\ features.num_categories = 31
    /\ SumPercentage(features.category_stats) = 10013

-----------------------------------------------------------------------------
(* Properties of the high-spend rule (SpecRules).                          *)

Stats == features.category_stats

RecCategories == {recs[i].category : i \in DOMAIN recs}

\* The rows whose percentage is strictly above, or at least, that of row k.
RowsAbove(k) == {j \in DOMAIN Stats : Stats[j].percentage > Stats[k].percentage}
RowsAtLeast(k) ==
    {j \in DOMAIN Stats : j # k /\ Stats[j].percentage >= Stats[k].percentage}

StatsRow(c) == Stats[CHOOSE k \in DOMAIN Stats : Stats[k].category = c]

\* C9: the high-spend rule emits a recommendation only for a category that
\* is among the 3 of largest percentage and whose percentage is > 20, one
\* for every such category, at most 3 in all, no two for one category.
C9_HighSpendTopThree ==
    phase = "ruled" =>
        /\ Len(recs) <= 3
        /\ Len(recs) = Min(3, Cardinality({k \in DOMAIN Stats : Stats[k].percentage > 2000}))
        /\ \A i, j \in DOMAIN recs : i # j => recs[i].category # recs[j].category
        /\ \A i \in DOMAIN recs :
              /\ recs[i].type = "high_spend"
              /\ \E k \in DOMAIN Stats :
                    /\ Stats[k].category = recs[i].category
                    /\ Stats[k].percentage > 2000
                    /\ Cardinality(RowsAbove(k)) < 3
        /\ \A k \in DOMAIN Stats :
              (Stats[k].percentage > 2000 /\ Cardinality(RowsAtLeast(k)) < 3)
                  => Stats[k].category \in RecCategories
        /\ \A k \in DOMAIN Stats :
              (Stats[k].percentage <= 2000 \/ Cardinality(RowsAbove(k)) >= 3)
                  => Stats[k].category \notin RecCategories

C9_Witness ==
    /\ phase = "ruled"
    /\ Cardinality({k \in DOMAIN Stats : Stats[k].percentage > 2000}) = 4
    /\ Len(recs) = 3

\* C10: a high_spend recommendation is severe above 35 %, moderate above
\* 25 % up to 35 %, mild above 20 % up to 25 %; its priority is critical,
\* high, medium in that order and its potential_savings is 30 %, 20 %, 10 %
\* of the category's total.
C10_SeverityPrioritySavings ==
    phase = "ruled" =>
        \A i \in DOMAIN recs :
            LET rec == recs[i]
                row == StatsRow(rec.category)
                pct == row.percentage
            IN  /\ rec.current_percentage = pct
                /\ rec.current_amount = row.total
                /\ pct > 2000
                /\ rec.severity = "severe" <=> pct > 3500
                /\ rec.severity = "moderate" <=> (pct > 2500 /\ pct <= 3500)
                /\ rec.severity = "mild" <=> (pct > 2000 /\ pct <= 2500)
                /\ rec.severity = "severe" =>
                      rec.priority = "critical" /\ rec.potential_savings * 100 = row.total * 100 * 30
                /\ rec.severity = "moderate" =>
                      rec.priority = "high" /\ rec.potential_savings * 100 = row.total * 100 * 20
                /\ rec.severity = "mild" =>
                      rec.priority = "medium" /\ rec.potential_savings * 100 = row.total * 100 * 10

\* Food & Dining 600 of 800: severe, savings 180.00; the other category, at
\* exactly 25 %, is mild.
C10_Witness ==
    /\ phase = "ruled"
    /\ features.total_expense = 800
    /\ \E i, j \in DOMAIN recs :
          /\ CategoryName(recs[i].category) = "Food & Dining"
          /\ recs[i].current_amount = 600
          /\ recs[i].current_percentage = 7500
          /\ recs[i].severity = "severe"
          /\ recs[i].priority = "critical"
          /\ recs[i].potential_savings = 18000
          /\ recs[j].current_percentage = 2500
          /\ recs[j].severity = "mild"

-----------------------------------------------------------------------------
(* Properties of ordering and totalling (SpecPrioritize).                  *)

Rank(x) == PriorityRank(Get(x, "priority", "low"))
Savings(x) == Get(x, "potential_savings", 0)

\* C11: prioritize_recommendations returns a permutation of its input,
\* ordered by priority rank ascending (critical 0, high 1, medium 2, low 3,
\* unknown after low) and by potential_savings descending within one rank;
\* recommendations equal in both keep their input order, and the input
\* list is as it was.
C11_PrioritizeStableSort ==
    phase \in {"prioritized", "totalled"} =>
        /\ Len(sorted_recs) = Len(recs)
        /\ {sorted_recs[i] : i \in DOMAIN sorted_recs} = {recs[i] : i \in DOMAIN recs}
        /\ \A i \in DOMAIN recs : recs[i].tag = i
        /\ \A i, j \in DOMAIN sorted_recs :
              i < j =>
                /\ Rank(sorted_recs[i]) <= Rank(sorted_recs[j])
                /\ Rank(sorted_recs[i]) = Rank(sorted_recs[j])
                      => Savings(sorted_recs[i]) >= Savings(sorted_recs[j])
                /\ (/\ Rank(sorted_recs[i]) = Rank(sorted_recs[j])
                    /\ Savings(sorted_recs[i]) = Savings(sorted_recs[j]))
                      => sorted_recs[i].tag < sorted_recs[j].tag
        /\ \A i \in DOMAIN sorted_recs :
              /\ Get(sorted_recs[i], "priority", "low") = "critical" <=> Rank(sorted_recs[i]) = 0
              /\ Get(sorted_recs[i], "priority", "low") = "high" <=> Rank(sorted_recs[i]) = 1
              /\ Get(sorted_recs[i], "priority", "low") = "medium" <=> Rank(sorted_recs[i]) = 2
              /\ Get(sorted_recs[i], "priority", "low") = "low" <=> Rank(sorted_recs[i]) = 3

\* An unknown priority behind a low one it preceded, and two recommendations
\* of equal priority and savings, the second without the savings key, that
\* moved to the front in their input order.
C11_Witness ==
    /\ phase = "prioritized"
    /\ Len(recs) = 3
    /\ Get(recs[1], "priority", "low") = "urgent"
    /\ Get(recs[2], "priority", "low") = "high"
    /\ Get(recs[3], "priority", "low") = "high"
    /\ "potential_savings" \in DOMAIN recs[2]
    /\ "potential_savings" \notin DOMAIN recs[3]
    /\ sorted_recs = <<recs[2], recs[3], recs[1]>>

\* The potential_savings of the first n elements of s, a missing one as 0.
RECURSIVE SavingsOfFirst(_, _)
SavingsOfFirst(s, n) ==
    IF n = 0 THEN 0
    ELSE SavingsOfFirst(s, n - 1)
            + (IF "potential_savings" \in DOMAIN s[n] THEN s[n].potential_savings ELSE 0)

Orders(n) == {f \in [1..n -> 1..n] : \A i, j \in 1..n : i # j => f[i] # f[j]}

-----------------------------------------------------------------------------
(* Properties of the rule engine (SpecEngine).                             *)

Generated == phase \in {"generated", "prioritized", "totalled"}

RecsOfType(t) == SelectSeq(recs, LAMBDA r : r.type = t)

KnownPriorities == {"critical", "high", "medium", "low"}

IsCongratulation(r) == r.type = "persona" /\ r.persona = "Budget Master"

\* C13, as claimed: every recommendation generate_recommendations returns
\* has a priority among critical, high, medium, low and a potential_savings
\* field that is >= 0.
C13_EveryRecHasPriorityAndSavings ==
    Generated =>
        \A i \in DOMAIN recs :
            /\ "priority" \in DOMAIN recs[i]
            /\ recs[i].priority \in KnownPriorities
            /\ "potential_savings" \in DOMAIN recs[i]
            /\ recs[i].potential_savings >= 0

\* C13, amended: for a FeatureSet of rows with amounts > 0, every
\* recommendation has a priority among critical, high, medium, low; every
\* recommendation but the persona rule's "Budget Master" congratulation has
\* a potential_savings field that is >= 0, and the congratulation has no
\* such field, which the total reads as 0.
C13_SavingsPresentExceptCongratulation ==
    Generated =>
        /\ \A i \in DOMAIN recs :
              /\ "priority" \in DOMAIN recs[i]
              /\ recs[i].priority \in KnownPriorities
              /\ IsCongratulation(recs[i]) <=> "potential_savings" \notin DOMAIN recs[i]
              /\ ~IsCongratulation(recs[i]) => recs[i].potential_savings >= 0
        /\ phase = "totalled" => total_savings >= 0

\* A high-spend, a weekend, a budget and the congratulation, the last one
\* alone without the field.
C13_Witness ==
    /\ phase = "totalled"
    /\ \A i \in DOMAIN df : df[i].amount > 0
    /\ Len(RecsOfType("high_spend")) > 0
    /\ Len(RecsOfType("weekend_spending")) = 1
    /\ Len(RecsOfType("budget_alignment")) > 0
    /\ \E i \in DOMAIN recs :
          /\ IsCongratulation(recs[i])
          /\ "potential_savings" \notin DOMAIN recs[i]
    /\ total_savings > 0

\* The weekend recommendations, and whether the ratio is above 0.35.
WeekendRecs == RecsOfType("weekend_spending")
RatioAboveTrigger == 100 * features.weekend_spending > 35 * features.total_expense

\* C16: the weekend rule emits one recommendation when
\* weekend_spending_ratio > 0.35 and none when it is <= 0.35; the one it
\* emits has priority medium and potential_savings = total_expense *
\* (ratio - 0.30), which is > 0.
C16_WeekendRule ==
    Generated =>
        /\ RatioAboveTrigger =>
              /\ Len(WeekendRecs) = 1
              /\ WeekendRecs[1].priority = "medium"
              /\ WeekendRecs[1].potential_savings
                    = 100 * features.weekend_spending - 30 * features.total_expense
              /\ WeekendRecs[1].potential_savings > 0
        /\ ~RatioAboveTrigger => Len(WeekendRecs) = 0

\* Ratio 0.5 of a total of 1000: 200.00.
C16_Witness ==
    /\ Generated
    /\ features.total_expense = 1000
    /\ features.weekend_spending = 500
    /\ Len(WeekendRecs) = 1
    /\ WeekendRecs[1].potential_savings = 20000

\* The budget recommendations, and the rows over their upper bound.
BudgetRecs == RecsOfType("budget_alignment")
OverBudget ==
    {k \in DOMAIN features.category_stats :
        /\ features.category_stats[k].category \in 1..7
        /\ 100 * features.category_stats[k].total
              > OptimalMax(features.category_stats[k].category) * income}

\* C17: the budget rule emits nothing when income is None or <= 0; when
\* income > 0 it emits one recommendation of priority high for each category
\* of the optimal-range table whose total / income * 100 is above the upper
\* bound, and for no other, with potential_savings = total - income *
\* (upper bound / 100), which is > 0.
C17_BudgetRule ==
    Generated =>
        /\ income <= 0 => Len(BudgetRecs) = 0
        /\ income > 0 =>
              /\ Len(BudgetRecs) = Cardinality(OverBudget)
              /\ \A k \in OverBudget :
                    \E i \in DOMAIN BudgetRecs :
                        /\ BudgetRecs[i].category = features.category_stats[k].category
                        /\ BudgetRecs[i].priority = "high"
                        /\ BudgetRecs[i].potential_savings
                              = 100 * features.category_stats[k].total
                                  - income * OptimalMax(features.category_stats[k].category)
                        /\ BudgetRecs[i].potential_savings > 0
              /\ \A i, j \in DOMAIN BudgetRecs :
                    i # j => BudgetRecs[i].category # BudgetRecs[j].category

\* Income 2000: 'Bills & Utilities' at 650 is over its 25 % and saves
\* 150.00, while 'Food & Dining' at 500, exactly 25 %, gets nothing.
C17_Witness ==
    /\ Generated
    /\ income = 2000
    /\ Len(features.category_stats) = 2
    /\ features.category_stats[1].category = 1
    /\ features.category_stats[1].total = 650
    /\ features.category_stats[2].category = 3
    /\ features.category_stats[2].total = 500
    /\ Len(BudgetRecs) = 1
    /\ BudgetRecs[1].category = 1
    /\ BudgetRecs[1].potential_savings = 15000

PersonaRecs == RecsOfType("persona")

\* C18: the persona rule emits one recommendation of priority critical with
\* potential_savings = total_expense * 0.25 for "Needs Improvement", one of
\* priority low without a savings field for "Budget Master", and nothing
\* for any other persona, "Balanced Saver" and "Average Spender" included.
C18_PersonaRule ==
    Generated =>
        /\ insights.persona = get_cluster_name(cluster_id)
        /\ insights.persona = "Needs Improvement" =>
              /\ Len(PersonaRecs) = 1
              /\ PersonaRecs[1].priority = "critical"
              /\ "potential_savings" \in DOMAIN PersonaRecs[1]
              /\ PersonaRecs[1].potential_savings = 25 * features.total_expense
        /\ insights.persona = "Budget Master" =>
              /\ Len(PersonaRecs) = 1
              /\ PersonaRecs[1].priority = "low"
              /\ "potential_savings" \notin DOMAIN PersonaRecs[1]
        /\ insights.persona \notin {"Needs Improvement", "Budget Master"} =>
              Len(PersonaRecs) = 0
        /\ cluster_id = 1 => insights.persona = "Balanced Saver"
        /\ cluster_id = 3 => insights.persona = "Average Spender"

\* "Needs Improvement" with a total of 1000: 250.00.
C18_Witness ==
    /\ Generated
    /\ cluster_id = 2
    /\ features.total_expense = 1000
    /\ Len(PersonaRecs) = 1
    /\ PersonaRecs[1].priority = "critical"
    /\ PersonaRecs[1].potential_savings = 25000

FrequencyRecs == RecsOfType("frequency")

\* C19: the frequency rule emits one recommendation when num_transactions
\* > 100 and avg_transaction < 500, both strictly, and none otherwise; the
\* one it emits has priority low and potential_savings = avg_transaction *
\* num_transactions * 0.15.
C19_FrequencyRule ==
    Generated =>
        LET fires == /\ features.num_transactions > 100
                     /\ features.total_expense < 500 * features.num_transactions
        IN  /\ fires =>
                  /\ Len(FrequencyRecs) = 1
                  /\ FrequencyRecs[1].priority = "low"
                  /\ FrequencyRecs[1].potential_savings = 15 * features.total_expense
            /\ ~fires => Len(FrequencyRecs) = 0

\* 150 transactions of 300: 6750.00.
C19_Witness ==
    /\ Generated
    /\ features.num_transactions = 150
    /\ features.total_expense = 150 * 300
    /\ Len(FrequencyRecs) = 1
    /\ FrequencyRecs[1].potential_savings = 675000

\* 101 transactions of 500 (average exactly 500) and 100 of 300 both emit
\* nothing.
C19_AtTheBounds ==
    /\ Generated
    /\ \/ features.num_transactions = 101 /\ features.total_expense = 101 * 500
       \/ features.num_transactions = 100 /\ features.total_expense = 100 * 300
    /\ Len(FrequencyRecs) = 0

\* C15: main_focus is the name of the FeatureSet's top_category, the
\* category of the largest total, and 'General' only without categories.
C15_MainFocusIsTopCategory ==
    (phase \in {"insights", "generated", "prioritized", "totalled"}) =>
        /\ features.num_categories > 0 =>
              insights.main_focus = CategoryName(features.top_category)
        /\ insights.main_focus = "General" <=> features.num_categories = 0

-----------------------------------------------------------------------------
(* Properties of top_category (SpecFeatures).                              *)

\* C14: top_category is a category whose total is the largest of all, the
\* first such row of category_stats when several tie, and
\* top_category_percentage is the percentage of that row.
C14_TopCategoryFirstOfLargestTotal ==
    (phase = "extracted" /\ ~features.nodata) =>
        \E k \in DOMAIN features.category_stats :
            LET stats == features.category_stats
            IN  /\ features.top_category = stats[k].category
                /\ features.top_category_percentage = stats[k].percentage
                /\ \A j \in DOMAIN stats : stats[j].total <= stats[k].total
                /\ \A j \in DOMAIN stats : j < k => stats[j].total < stats[k].total

\* 'Food & Dining' and a later category tie at 300 of 600: the first wins.
C14_Witness ==
    /\ phase = "extracted"
    /\ ~features.nodata
    /\ Len(features.category_stats) = 2
    /\ features.category_stats[1].total = 300
    /\ features.category_stats[2].total = 300
    /\ features.top_category = 3
    /\ features.top_category_percentage = 5000

-----------------------------------------------------------------------------
(* Properties of train_model (SpecTrain).                                  *)

\* C20: for every configured n_clusters k and every batch of n >= 1
\* vectors, train_model builds a model of n clusters when n < k and of k
\* clusters otherwise.
C20_TrainReducesToSampleCount ==
    phase = "trained" =>
        kmeans = (IF num_vectors < self_n_clusters THEN num_vectors ELSE self_n_clusters)

\* The row of category cat in the stats of features f, as a set (empty when
\* the category has no expense row).
StatsOf(f, cat) ==
    {f.category_stats[k] : k \in {j \in DOMAIN f.category_stats :
                                     f.category_stats[j].category = cat}}

\* Entry i of vector v is the percentage of category cat, 0 when absent.
HoldsPercentage(v, i, f, cat) ==
    IF StatsOf(f, cat) = {} THEN v[i] = Entry(0, 1)
    ELSE \A r \in StatsOf(f, cat) :
            v[i] = IF r.percentage = NaN THEN NaNEntry
                   ELSE Entry(r.percentage, 100)

VectorInOrder(v, f) ==
    /\ Len(v) = 11
    /\ HoldsPercentage(v, 1, f, 3)   \* Food & Dining
    /\ HoldsPercentage(v, 2, f, 7)   \* Transportation
    /\ HoldsPercentage(v, 3, f, 6)   \* Shopping
    /\ HoldsPercentage(v, 4, f, 2)   \* Entertainment
    /\ HoldsPercentage(v, 5, f, 1)   \* Bills & Utilities
    /\ HoldsPercentage(v, 6, f, 4)   \* Healthcare
    /\ HoldsPercentage(v, 7, f, 5)   \* Other
    /\ v[8] = Entry(f.total_expense, f.num_transactions * 1000)
    /\ v[9] = IF f.num_transactions < 2 THEN NaNEntry
              ELSE RootEntry(f.std_transaction,
                             f.num_transactions * (f.num_transactions - 1) * 1000000)
    /\ v[10] = IF f.total_expense > 0
               THEN Entry(100 * f.weekend_spending, f.total_expense)
               ELSE Entry(0, 1)
    /\ v[11] = Entry(f.num_transactions, 10)

\* C21: prepare_clustering_data returns 11 entries in the order Food & Dining,
\* Transportation, Shopping, Entertainment, Bills & Utilities, Healthcare,
\* Other, avg / 1000, std / 1000, weekend ratio * 100, count / 10, with 0 for
\* a standard category that has no row; every call on the same features
\* returns the same vector, and a call leaves the features as they were.
C21_VectorSchema ==
    /\ [](\A k \in DOMAIN feature_vector :
             /\ VectorInOrder(feature_vector[k], features)
             /\ feature_vector[k] = feature_vector[1])
    /\ [][feature_vector' # feature_vector => features' = features]_vars

\* Two calls were made on features where Food & Dining and Other have rows,
\* Transportation has none, and a category of the user's own is present.
C21_Witness ==
    /\ Len(feature_vector) = 2
    /\ StatsOf(features, 3) # {}
    /\ StatsOf(features, 5) # {}
    /\ StatsOf(features, 7) = {}
    /\ StatsOf(features, 8) # {}
    /\ features.total_expense > 0

TotalIncome == SumAmount(SelectSeq(df, IsIncome))
TotalExpense == SumAmount(SelectSeq(df, IsExpense))
Rated == phase = "rated"

\* C22 as stated: calculate_savings_rate answers a negative rate exactly when
\* the expenses exceed a non-zero income.
C22_NegativeExactlyWhenOverspent ==
    (Rated /\ TotalIncome # 0) => (savings_rate < 0 <=> TotalExpense > TotalIncome)

\* C22: calculate_savings_rate answers 0 for no rows or a total income of 0,
\* else (income - expense) / income * 100 rounded to 2 decimals; the rate
\* is at most 100, is negative only when the expenses exceed the income,
\* and is 0 instead of negative when the excess is at most 0.005 % of the
\* income.
C22_SavingsRateRounded ==
    Rated =>
        /\ (Len(df) = 0 \/ TotalIncome = 0) => savings_rate = 0
        /\ TotalIncome # 0 =>
              savings_rate = RoundHalfEven((TotalIncome - TotalExpense) * 10000,
                                           TotalIncome)
        /\ savings_rate <= 10000
        /\ savings_rate < 0 => TotalExpense > TotalIncome
        /\ savings_rate < 0 <=>
              /\ TotalIncome # 0
              /\ (TotalExpense - TotalIncome) * 10000 > TotalIncome \div 2

\* The expenses exceed the income by one unit in 30000 and the rate is 0.
C22_Witness ==
    /\ Rated
    /\ TotalIncome = 30000
    /\ TotalExpense = 30001
    /\ savings_rate = 0

InsightsRequests == {r \in Requests : r.kind = "insights"}

\* The places of api_ml_insights a handler can be at; each has a step that
\* is enabled whatever the files hold.
InsightsSteps ==
    {"load_exists_model", "load_exists_scaler", "load_model", "load_scaler",
     "predict", "store"}

\* predict_cluster raised in r's handler: the scaler was never fitted, or
\* the feature vector holds NaN and a model is loaded.
PredictRaised(r) ==
    /\ r.predictCalled
    /\ ~r.recsGenerated

\* C23: every insights handler is at a step it can leave or has answered, and
\* it answers once, with 200, 400 or 500 and a message; a raise inside the
\* computation is answered 500 with a message, and a failed
\* store_ml_insights leaves the answer at 200.
C23_EveryFailureAnswered ==
    \A r \in InsightsRequests :
        /\ r.pc \in InsightsSteps \cup {"done"}
        /\ r.pc # "done" => (r.status = 0 /\ r.message = "none")
        /\ r.pc = "done" =>
              /\ r.status \in {200, 400, 500}
              /\ r.message # "none"
              /\ PredictRaised(r) => (r.status = 500 /\ r.message = "error")
              /\ r.recsGenerated => (r.status = 200 /\ r.message = "insights")
              /\ ~r.predictCalled => r.status = 400

\* One handler answered 500 after predict_cluster raised on a NaN entry, and
\* another answered 200 although store_ml_insights failed.
C23_Witness ==
    /\ \E r \in InsightsRequests :
          r.pc = "done" /\ PredictRaised(r) /\ r.has_nan /\ r.status = 500
    /\ \E r \in InsightsRequests :
          r.pc = "done" /\ r.recsGenerated /\ ~r.stored /\ r.status = 200

\* The two states of an analyzer's model slot.
Untrained(r) == r.model.st = "none"
Trained(r) ==
    /\ r.model.st = "fitted"
    /\ r.scaler.st = "fitted"
    /\ r.scaler.id = r.model.id

\* C24: between the calls of train_model, predict_cluster and _load_model (a
\* handler at "load_scaler" is inside _load_model), an analyzer holds no
\* model, or a fitted model with the scaler fitted by the same train call.
C24_SlotUntrainedOrTrained ==
    \A r \in Requests :
        r.pc # "load_scaler" => (Untrained(r) \/ Trained(r))

\* C25: an insights request of a user with at least one expense row (the
\* model's amounts are all positive) is answered 200, with or without a
\* persisted model, provided the reads of the model files did not fail.
C25_OneExpenseRowSucceeds ==
    \A r \in InsightsRequests :
        (r.pc = "done" /\ r.nExp >= 1 /\ r.loadFailed = "no") => r.status = 200

\* Handler r predicted with the model it loaded from the model file.
PredictedWithModel(r) == Predicted(r) /\ r.model.st = "fitted"

====
